---------------------------- MODULE Spec2Model ----------------------------
(***************************************************************************)
(* Model of src/src/data.rs: the Data wrapper around a native gpgme data   *)
(* handle, its constructors, the callback bridge for user streams and the  *)
(* Read / Write / Seek facade.                                             *)
(*                                                                         *)
(* Machine integers are scaled down to Width bits: usize / u64 are the     *)
(* unsigned Width-bit numbers, ssize_t / off_t / i64 the signed ones, and  *)
(* every `as` cast of the source is modelled as the wrapping conversion it *)
(* is.                                                                     *)
(***************************************************************************)
EXTENDS Integers, Naturals, Sequences, FiniteSets, TLC

\* ------------------------------------------------------------------ bounds
Width == 3
MaxObj == 2
MaxStreams == 2
MaxLen == 2
MaxChunk == 2
MaxByte == 1

\* --------------------------------------------------------- libc constants
SEEK_SET == 0
SEEK_CUR == 1
SEEK_END == 2

\* --------------------------------------------------------- machine integers
TwoW == 2 ^ Width
Half == 2 ^ (Width - 1)
USize == 0 .. (TwoW - 1)
ISize == (0 - Half) .. (Half - 1)

\* `n as libc::ssize_t`, `n as libc::off_t`, `off as libc::off_t`
AsSigned(u) == IF (u % TwoW) >= Half THEN (u % TwoW) - TwoW ELSE u % TwoW

\* `offset as u64`
AsUnsigned(i) == i % TwoW

\* --------------------------------------------------------- error translation
\* Native status codes; GPG_ERR_NO_ERROR is the 0 the source compares with.
GPG_ERR_NO_ERROR == "GPG_ERR_NO_ERROR"
GPG_ERR_EINVAL == "GPG_ERR_EINVAL"
FailStatus == {"GPG_ERR_ENOMEM", "GPG_ERR_INV_VALUE"}
Status == {GPG_ERR_NO_ERROR} \cup FailStatus

IoKinds == {"NotFound", "Other"}

\* Error::new(code)
Error_new(code) == [code |-> code]

\* Error::from(io::Error): unknown causes map to the generic I/O failure code
Error_from_io(kind) ==
    Error_new(CASE kind = "NotFound" -> "GPG_ERR_ENOENT"
                [] kind = "PermissionDenied" -> "GPG_ERR_EACCES"
                [] OTHER -> "GPG_ERR_EIO")

\* ffi::gpgme_err_code_to_errno: 0 when the code is no system error
gpgme_err_code_to_errno(code) ==
    CASE code = "GPG_ERR_ENOENT" -> 2
      [] code = "GPG_ERR_EIO" -> 5
      [] code = "GPG_ERR_EACCES" -> 13
      [] code = "GPG_ERR_EINVAL" -> 22
      [] code = "GPG_ERR_ENOSYS" -> 38
      [] OTHER -> 0

\* Error::to_errno
to_errno(e) == gpgme_err_code_to_errno(e.code)

\* Error::last_os_error(): the code of the thread's errno
Error_last_os_error(en) ==
    Error_new(CASE en = 2 -> "GPG_ERR_ENOENT"
                [] en = 5 -> "GPG_ERR_EIO"
                [] en = 13 -> "GPG_ERR_EACCES"
                [] en = 22 -> "GPG_ERR_EINVAL"
                [] en = 38 -> "GPG_ERR_ENOSYS"
                [] en = 0 -> GPG_ERR_NO_ERROR
                [] OTHER -> "GPG_ERR_UNKNOWN_ERRNO")

\* Results: Ok(v) / Err(e)
Ok(v) == [tag |-> "Ok", val |-> v]
Err(e) == [tag |-> "Err", val |-> e]

\* WrappedError(Error, S) with its two accessors
WrappedError(e, s) == <<e, s>>
error(w) == w[1]
into_inner(w) == w[2]

\* --------------------------------------------------------- callback bridge
\* What one invocation of a bridged callback does: the value handed back to
\* the engine, whether and to what it set the last-error register, and
\* whether (and with what request) it called the user object.
\* A user result is Ok(n) with n unsigned, or Err(kind).
NoSet == [set |-> FALSE, val |-> 0]
SetErrno(v) == [set |-> TRUE, val |-> v]

SeekFrom(tag, off) == [tag |-> tag, off |-> off]
NoReq == SeekFrom("none", 0)

CbOut(ret, en, called, req) ==
    [ret |-> ret, en |-> en, called |-> called, req |-> req]

\* A read_callback that fails without setting the register
read_callback_silent(size, ures) ==
    IF ures.tag = "Ok"
      THEN CbOut(AsSigned(ures.val), NoSet, TRUE, NoReq)
      ELSE CbOut(-1, NoSet, TRUE, NoReq)

read_callback(size, ures) ==
    IF ures.tag = "Ok"
      THEN CbOut(AsSigned(ures.val), NoSet, TRUE, NoReq)
      ELSE CbOut(-1, SetErrno(to_errno(Error_from_io(ures.val))), TRUE, NoReq)

write_callback(size, ures) ==
    IF ures.tag = "Ok"
      THEN CbOut(AsSigned(ures.val), NoSet, TRUE, NoReq)
      ELSE CbOut(-1, SetErrno(to_errno(Error_from_io(ures.val))), TRUE, NoReq)

seek_callback(offset, whence, ures) ==
    IF whence \notin {SEEK_SET, SEEK_END, SEEK_CUR}
      THEN CbOut(-1, SetErrno(gpgme_err_code_to_errno(GPG_ERR_EINVAL)), FALSE, NoReq)
      ELSE LET pos == CASE whence = SEEK_SET -> SeekFrom("Start", AsUnsigned(offset))
                        [] whence = SEEK_END -> SeekFrom("End", offset)
                        [] whence = SEEK_CUR -> SeekFrom("Current", offset)
           IN  IF ures.tag = "Ok"
                 THEN CbOut(AsSigned(ures.val), NoSet, TRUE, pos)
                 ELSE CbOut(-1, SetErrno(to_errno(Error_from_io(ures.val))), TRUE, pos)


\* ------------------------------------------------------------------ state
VARIABLES
    obj,      \* per construction slot: the native handle, its Data wrapper, its Callback Context
    streams,  \* the user's stream objects
    errno,    \* the thread's last-error register
    last,     \* the last operation: its arguments and what it returned
    mem,      \* the engine's memory buffer of the memory-backed object
    caller,   \* the caller's byte buffer handed to from_bytes
    ghost     \* the caller's own record of what it wrote and read back

vars == <<obj, streams, errno, last, mem, caller, ghost>>

Objs == 1 .. MaxObj
Streams == 1 .. MaxStreams
Byte == 0 .. MaxByte

\* ffi::gpgme_data_cbs: which of the four slots hold a function pointer
Cbs(r, w, s, rel) == [read |-> r, write |-> w, seek |-> s, release |-> rel]
NoCbs == Cbs(FALSE, FALSE, FALSE, FALSE)

NoObj ==
    [eng |-> "unalloc",      \* native handle: unalloc | live | released
     kind |-> "none",        \* none | mem | cbs
     ctor |-> "none",        \* the constructor that was called for this slot
     cbs |-> NoCbs,          \* the table registered with the engine
     data |-> "none",        \* Data wrapper: none | owned | raw (extracted) | gone
     releases |-> 0,         \* native releases the wrapper issued for the handle
     extracted |-> FALSE,    \* the caller called into_raw
     ctx |-> "none",         \* Callback Context (the Box): none | boxed | freed
     ctxFrees |-> 0,         \* times the Box was reclaimed
     cbReleases |-> 0,       \* times release_callback ran
     inner |-> 0]            \* the stream the context owns

NoStream == [where |-> "caller", drops |-> 0, pos |-> 0]
NoMem == [buf |-> <<>>, off |-> 0, alias |-> FALSE]
NoCaller == [buf |-> <<>>, st |-> "none"]
NoGhost ==
    [mode |-> "none",        \* none | writing | reading | eof | other
     origin |-> "none",      \* the constructor of the object
     written |-> <<>>,       \* the bytes put into the object, in order
     acc |-> <<>>,           \* the bytes read back since the last seek
     from |-> 0,             \* the position the last seek returned
     how |-> "none",         \* the origin of the last seek request (ctor: none yet)
     chunks |-> 0]           \* the number of chunks written
NoLast == [op |-> "init"]

\* A piece of the world an operation on one Data object works on: the
\* object's slot and the stream its context owns.
World(o, st) == [obj |-> o, str |-> st]

\* ------------------------------------------------------------------ teardown
\* release_callback: drop(Box::from_raw(handle)) reclaims the context and
\* drops the user object it owns.
\* A release_callback that forgets the context instead of dropping it
release_callback_leak(w) == w

release_callback(w) ==
    [w EXCEPT !.obj.ctx = "freed",
              !.obj.ctxFrees = @ + 1,
              !.obj.cbReleases = @ + 1,
              !.str.where = "dropped",
              !.str.drops = @ + 1]

\* The engine's release of a handle: it invokes the release slot, when the
\* handle has a callback table with that slot populated.
gpgme_data_release(w) ==
    LET w1 == [w EXCEPT !.obj.eng = "released"]
    IN  IF w.obj.kind = "cbs" /\ w.obj.cbs.release
          THEN release_callback(w1)
          ELSE w1

\* The engine's extract-and-release: the handle is released on every path;
\* bytes come back only for a memory-backed handle (got: the copy succeeded).
gpgme_data_release_and_get_mem(w, got) ==
    [w |-> gpgme_data_release(w),
     buf |-> IF w.obj.kind = "mem" /\ got THEN "bytes" ELSE "null"]

\* Drop for Data
Data_drop(w) ==
    gpgme_data_release([w EXCEPT !.obj.releases = @ + 1, !.obj.data = "gone"])

\* Data::from_raw
from_raw(w) == [w EXCEPT !.obj.data = "owned"]

\* Data::as_raw
as_raw(w) == w

\* An into_raw without mem::forget: self is dropped when into_raw returns
into_raw_dropping(w) == [Data_drop(w) EXCEPT !.obj.data = "raw"]

\* Data::into_raw: mem::forget(self) keeps the wrapper's drop from running
into_raw(w) == [w EXCEPT !.obj.data = "raw"]

\* Data::try_into_bytes
try_into_bytes(w, got) ==
    LET w1 == into_raw(w)
        r == gpgme_data_release_and_get_mem([w1 EXCEPT !.obj.releases = @ + 1], got)
    IN  [w |-> [r.w EXCEPT !.obj.data = "gone"],
         res |-> IF r.buf # "null" THEN "Some" ELSE "None"]

\* ------------------------------------------------------------------ construction
\* The engine's registration of a callback table: on success the handle
\* keeps the table and the context pointer; on failure it keeps nothing.
gpgme_data_new_from_cbs(o, cbs, result) ==
    IF result = GPG_ERR_NO_ERROR
      THEN [o EXCEPT !.eng = "live", !.kind = "cbs", !.cbs = cbs]
      ELSE o

\* A from_callbacks that reads the stream out of the context on failure and
\* leaves the Box allocated
from_callbacks_leak(w, cbs, src, result) ==
    LET boxed == [w EXCEPT !.obj.ctx = "boxed", !.obj.inner = src,
                           !.str.where = "boxed"]
        reg == [boxed EXCEPT !.obj = gpgme_data_new_from_cbs(boxed.obj, cbs, result)]
    IN  IF result = GPG_ERR_NO_ERROR
          THEN [w |-> from_raw(reg), res |-> Ok("Data")]
          ELSE [w |-> [reg EXCEPT !.str.where = "caller"],
                res |-> Err(WrappedError(Error_new(result), reg.obj.inner))]

\* Data::from_callbacks
from_callbacks(w, cbs, src, result) ==
    LET boxed == [w EXCEPT !.obj.ctx = "boxed", !.obj.inner = src,
                           !.str.where = "boxed"]
        reg == [boxed EXCEPT !.obj = gpgme_data_new_from_cbs(boxed.obj, cbs, result)]
    IN  IF result = GPG_ERR_NO_ERROR
          THEN [w |-> from_raw(reg), res |-> Ok("Data")]
          ELSE [w |-> [reg EXCEPT !.obj.ctx = "freed", !.obj.ctxFrees = @ + 1,
                                  !.str.where = "caller"],
                res |-> Err(WrappedError(Error_new(result), reg.obj.inner))]

from_reader(w, r, result) ==
    from_callbacks(w, Cbs(TRUE, FALSE, FALSE, TRUE), r, result)

from_seekable_reader(w, r, result) ==
    from_callbacks(w, Cbs(TRUE, FALSE, TRUE, TRUE), r, result)

\* A from_writer that also registers the read slot
from_writer_readable(w, s, result) ==
    from_callbacks(w, Cbs(TRUE, TRUE, FALSE, TRUE), s, result)

from_writer(w, s, result) ==
    from_callbacks(w, Cbs(FALSE, TRUE, FALSE, TRUE), s, result)

from_seekable_writer(w, s, result) ==
    from_callbacks(w, Cbs(FALSE, TRUE, TRUE, TRUE), s, result)

from_stream(w, s, result) ==
    from_callbacks(w, Cbs(TRUE, TRUE, FALSE, TRUE), s, result)

from_seekable_stream(w, s, result) ==
    from_callbacks(w, Cbs(TRUE, TRUE, TRUE, TRUE), s, result)

StreamCtors == {"from_reader", "from_seekable_reader", "from_writer",
                "from_seekable_writer", "from_stream", "from_seekable_stream"}

Construct(ctor, w, s, result) ==
    CASE ctor = "from_reader" -> from_reader(w, s, result)
      [] ctor = "from_seekable_reader" -> from_seekable_reader(w, s, result)
      [] ctor = "from_writer" -> from_writer(w, s, result)
      [] ctor = "from_seekable_writer" -> from_seekable_writer(w, s, result)
      [] ctor = "from_stream" -> from_stream(w, s, result)
      [] ctor = "from_seekable_stream" -> from_seekable_stream(w, s, result)

\* The engine's allocate-empty: no backing storage yet
gpgme_data_new == [buf |-> <<>>, off |-> 0, alias |-> FALSE]

\* Data::new: return_err!(gpgme_data_new(&mut data)); Ok(Data::from_raw(data))
Data_new(w, result) ==
    IF result # GPG_ERR_NO_ERROR
      THEN [w |-> w, res |-> Err(Error_new(result))]
      ELSE [w |-> from_raw([w EXCEPT !.obj.eng = "live", !.obj.kind = "mem"]),
            res |-> Ok("Data")]


\* ------------------------------------------------------------------ engine memory buffer
Min(a, b) == IF a < b THEN a ELSE b
Max(a, b) == IF a > b THEN a ELSE b

\* What an engine I/O entry point hands back: the callback outcome (or the
\* engine's own), the memory object's new state and the bytes it delivered.
EngOut(cb, invoked, m, bytes) ==
    [cb |-> cb, invoked |-> invoked, m |-> m, bytes |-> bytes]

\* The bytes the engine reads a memory object from: its own buffer, or (when
\* it was given the caller's buffer without copying) the caller's buffer as
\* it is now; junk when that buffer is gone.
MemSource(m, c, junk) ==
    IF m.alias THEN (IF c.st = "valid" THEN c.buf ELSE junk) ELSE m.buf

\* The engine's allocate-from-memory: copy # 0 copies the bytes at once
gpgme_data_new_from_mem(bytes, copy) ==
    IF copy # 0
      THEN [buf |-> bytes, off |-> 0, alias |-> FALSE]
      ELSE [buf |-> <<>>, off |-> 0, alias |-> TRUE]

mem_read(m, size, src) ==
    LET n == Min(size, Len(src) - m.off)
    IN  EngOut(CbOut(n, NoSet, FALSE, NoReq), FALSE,
               [m EXCEPT !.off = @ + n],
               SubSeq(src, m.off + 1, m.off + n))

mem_write(m, chunk, src) ==
    LET end == m.off + Len(chunk)
        nb == [i \in 1 .. Max(Len(src), end) |->
                 IF i > m.off /\ i <= end THEN chunk[i - m.off] ELSE src[i]]
    IN  EngOut(CbOut(Len(chunk), NoSet, FALSE, NoReq), FALSE,
               [buf |-> nb, off |-> end, alias |-> FALSE], <<>>)

mem_seek(m, offset, whence, src) ==
    LET target == CASE whence = SEEK_SET -> offset
                    [] whence = SEEK_CUR -> m.off + offset
                    [] whence = SEEK_END -> Len(src) + offset
                    [] OTHER -> -1
    IN  IF target < 0 \/ target > Len(src)
          THEN EngOut(CbOut(-1, SetErrno(gpgme_err_code_to_errno(GPG_ERR_EINVAL)),
                            FALSE, NoReq), FALSE, m, <<>>)
          ELSE EngOut(CbOut(target, NoSet, FALSE, NoReq), FALSE,
                      [m EXCEPT !.off = target], <<>>)

\* ------------------------------------------------------------------ engine I/O entry points
\* An empty slot is never invoked: the engine fails with "not supported".
NotSupported ==
    CbOut(-1, SetErrno(gpgme_err_code_to_errno("GPG_ERR_ENOSYS")), FALSE, NoReq)

gpgme_data_read(o, m, size, ures, src) ==
    IF o.kind = "mem" THEN mem_read(m, size, src)
    ELSE IF o.cbs.read THEN EngOut(read_callback(size, ures), TRUE, m, <<>>)
    ELSE EngOut(NotSupported, FALSE, m, <<>>)

gpgme_data_write(o, m, chunk, ures, src) ==
    IF o.kind = "mem" THEN mem_write(m, chunk, src)
    ELSE IF o.cbs.write THEN EngOut(write_callback(Len(chunk), ures), TRUE, m, <<>>)
    ELSE EngOut(NotSupported, FALSE, m, <<>>)

gpgme_data_seek(o, m, offset, whence, ures, src) ==
    IF o.kind = "mem" THEN mem_seek(m, offset, whence, src)
    ELSE IF o.cbs.seek THEN EngOut(seek_callback(offset, whence, ures), TRUE, m, <<>>)
    ELSE EngOut(NotSupported, FALSE, m, <<>>)

\* ------------------------------------------------------------------ stream facade
\* The register after an engine call that may have set it
ErrnoAfter(en0, r) == IF r.cb.en.set THEN r.cb.en.val ELSE en0

FacadeOut(r, res) == [r |-> r, res |-> res]

\* Read for Data
Data_read(o, m, size, ures, src, en0) ==
    LET r == gpgme_data_read(o, m, size, ures, src)
    IN  FacadeOut(r, IF r.cb.ret >= 0
                       THEN Ok(r.cb.ret)
                       ELSE Err(Error_last_os_error(ErrnoAfter(en0, r))))

\* A Write for Data that passes one byte less than the slice holds
Data_write_short(o, m, chunk, ures, src, en0) ==
    LET r == gpgme_data_write(o, m, SubSeq(chunk, 1, Len(chunk) - 1), ures, src)
    IN  FacadeOut(r, IF r.cb.ret >= 0
                       THEN Ok(r.cb.ret)
                       ELSE Err(Error_last_os_error(ErrnoAfter(en0, r))))

\* Write for Data
Data_write(o, m, chunk, ures, src, en0) ==
    LET r == gpgme_data_write(o, m, chunk, ures, src)
    IN  FacadeOut(r, IF r.cb.ret >= 0
                       THEN Ok(r.cb.ret)
                       ELSE Err(Error_last_os_error(ErrnoAfter(en0, r))))

\* The origin code Seek for Data passes for a SeekFrom
WhenceOf(pos) ==
    CASE pos.tag = "Start" -> SEEK_SET
      [] pos.tag = "End" -> SEEK_END
      [] pos.tag = "Current" -> SEEK_CUR

\* A Seek for Data that mixes up the origins of End and Current
Data_seek_swapped(o, m, pos, ures, src, en0) ==
    LET whence == CASE pos.tag = "Start" -> SEEK_SET
                    [] pos.tag = "End" -> SEEK_CUR
                    [] pos.tag = "Current" -> SEEK_END
        r == gpgme_data_seek(o, m, AsSigned(pos.off), whence, ures, src)
    IN  FacadeOut(r, IF r.cb.ret >= 0
                       THEN Ok(r.cb.ret)
                       ELSE Err(Error_last_os_error(ErrnoAfter(en0, r))))

\* Seek for Data
Data_seek(o, m, pos, ures, src, en0) ==
    LET r == gpgme_data_seek(o, m, AsSigned(pos.off), WhenceOf(pos), ures, src)
    IN  FacadeOut(r, IF r.cb.ret >= 0
                       THEN Ok(r.cb.ret)
                       ELSE Err(Error_last_os_error(ErrnoAfter(en0, r))))


\* ------------------------------------------------------------------ user streams
\* A user object is arbitrary: any call may fail with any I/O error, a read or
\* write may succeed with any count up to the slice's length, a seek with any
\* position.  A reader that always fails is the one whose every call fails.
\* Numbers are drawn from the ends and the sign boundary of their type.
Positions == {0, Half - 1, Half, TwoW - 1}
Offsets == {-1, 0, 1}

\* Lengths of the slices the engine hands to read and write
Sizes == {0, 1, Half - 1}

UserResults(op, size) ==
    {Err(k) : k \in IoKinds}
      \cup (IF op = "seek" THEN {Ok(n) : n \in Positions}
                           ELSE {Ok(n) : n \in {0, size}})

\* io::SeekFrom values: Start carries a u64, End and Current an i64
SeekFroms ==
    {SeekFrom("Start", n) : n \in Positions}
      \cup {SeekFrom("End", d) : d \in Offsets}
      \cup {SeekFrom("Current", d) : d \in Offsets}

\* The inputs the object-lifecycle specification draws from: one success and
\* one failure of each user call, one slice length, one seek request
FewResults == {Ok(0), Err("Other")}
FewSizes == {1}
FewSeeks == {SeekFrom("Start", 0)}

Whences == {SEEK_SET, SEEK_CUR, SEEK_END, 3}

\* ------------------------------------------------------------------ actions
Init ==
    /\ obj = [h \in Objs |-> NoObj]
    /\ streams = [s \in Streams |-> NoStream]
    /\ errno = 0
    /\ last = NoLast
    /\ mem = NoMem
    /\ caller = NoCaller
    /\ ghost = NoGhost

WorldOf(h) ==
    World(obj[h], IF obj[h].inner # 0 THEN streams[obj[h].inner] ELSE NoStream)

Put(h, w) ==
    /\ obj' = [obj EXCEPT ![h] = w.obj]
    /\ streams' = IF w.obj.inner # 0
                    THEN [streams EXCEPT ![w.obj.inner] = w.str]
                    ELSE streams

FreeSlot(h) ==
    /\ obj[h].ctor = "none"
    /\ \A g \in Objs : g < h => obj[g].ctor # "none"

\* One of the six user-stream constructors, with the engine's status
StreamCtor(h, ctor, s, result) ==
    /\ FreeSlot(h)
    /\ streams[s].where = "caller"
    /\ LET out == Construct(ctor, World([obj[h] EXCEPT !.ctor = ctor], streams[s]),
                            s, result)
       IN  /\ Put(h, out.w)
           /\ last' = [op |-> ctor, h |-> h, s |-> s, status |-> result,
                       res |-> out.res, pre |-> streams[s]]
    /\ UNCHANGED <<errno, mem, caller, ghost>>

New(h, result) ==
    /\ FreeSlot(h)
    /\ LET out == Data_new(World([obj[h] EXCEPT !.ctor = "new"], NoStream), result)
       IN  /\ Put(h, out.w)
           /\ last' = [op |-> "new", res |-> out.res.tag]
    /\ UNCHANGED <<errno, mem, caller, ghost>>

\* Scope exit of a Data value
Drop(h) ==
    /\ obj[h].data = "owned"
    /\ Put(h, Data_drop(WorldOf(h)))
    /\ last' = [op |-> "drop"]
    /\ UNCHANGED <<errno, mem, caller, ghost>>

AsRaw(h) ==
    /\ obj[h].data = "owned"
    /\ Put(h, as_raw(WorldOf(h)))
    /\ last' = [op |-> "as_raw"]
    /\ UNCHANGED <<errno, mem, caller, ghost>>

IntoRaw(h) ==
    /\ obj[h].data = "owned"
    /\ obj[h].releases < 2
    /\ Put(h, into_raw([WorldOf(h) EXCEPT !.obj.extracted = TRUE]))
    /\ last' = [op |-> "into_raw"]
    /\ UNCHANGED <<errno, mem, caller, ghost>>

\* The owner of an extracted handle wraps it again
FromRaw(h) ==
    /\ obj[h].data = "raw"
    /\ Put(h, from_raw(WorldOf(h)))
    /\ last' = [op |-> "from_raw"]
    /\ UNCHANGED <<errno, mem, caller, ghost>>

TryIntoBytes(h, got) ==
    /\ obj[h].data = "owned"
    /\ LET out == try_into_bytes(WorldOf(h), got)
       IN  /\ Put(h, out.w)
           /\ last' = [op |-> "try_into_bytes", res |-> out.res]
    /\ UNCHANGED <<errno, mem, caller, ghost>>

\* set_encoding, set_filename, clear_filename, set_flag:
\* return_err!(status); Ok(())
SetMeta(h, result) ==
    /\ obj[h].data = "owned"
    /\ last' = [op |-> "set_meta",
                res |-> IF result # GPG_ERR_NO_ERROR THEN "Err" ELSE "Ok"]
    /\ UNCHANGED <<obj, streams, errno, mem, caller, ghost>>

\* What an I/O call on a callback-backed object leaves behind.  full: the
\* call's arguments and results are all kept in last.
IOApply(h, op, f, ures, size, offset, whence, pos, full) ==
    LET s == obj[h].inner
    IN  /\ errno' = ErrnoAfter(errno, f.r)
        /\ streams' = IF f.r.cb.called /\ f.r.cb.req.tag # "none" /\ ures.tag = "Ok"
                        THEN [streams EXCEPT ![s].pos = ures.val]
                        ELSE streams
        /\ last' = IF full
                     THEN [op |-> op, h |-> h, s |-> s, whence |-> whence,
                           ures |-> ures, invoked |-> f.r.invoked, cb |-> f.r.cb,
                           res |-> f.res, pre |-> streams[s]]
                     ELSE [op |-> op, res |-> f.res.tag]
        /\ UNCHANGED <<obj, mem, caller, ghost>>

Read(h, size, ures, full) ==
    /\ obj[h].data = "owned" /\ obj[h].kind = "cbs"
    /\ IOApply(h, "read", Data_read(obj[h], NoMem, size, ures, <<>>, errno),
               ures, size, 0, 0, NoReq, full)

Write(h, size, ures, full) ==
    /\ obj[h].data = "owned" /\ obj[h].kind = "cbs"
    /\ IOApply(h, "write",
               Data_write(obj[h], NoMem, [i \in 1 .. size |-> 0], ures, <<>>, errno),
               ures, size, 0, 0, NoReq, full)

Seek(h, pos, ures, full) ==
    /\ obj[h].data = "owned" /\ obj[h].kind = "cbs"
    /\ IOApply(h, "seek", Data_seek(obj[h], NoMem, pos, ures, <<>>, errno),
               ures, 0, 0, WhenceOf(pos), pos, full)

\* The engine itself seeks on a live handle during an operation of its own,
\* with whatever origin code it was given.
EngineSeek(h, offset, whence, ures, full) ==
    /\ obj[h].eng = "live" /\ obj[h].kind = "cbs"
    /\ IOApply(h, "engine_seek",
               FacadeOut(gpgme_data_seek(obj[h], NoMem, offset, whence, ures, <<>>),
                         Ok(0)),
               ures, 0, offset, whence, NoReq, full)

\* ------------------------------------------------------------------ object lifecycle
Next ==
    \/ \E h \in Objs, c \in StreamCtors, s \in Streams, st \in Status :
         StreamCtor(h, c, s, st)
    \/ \E h \in Objs, st \in Status : New(h, st)
    \/ \E h \in Objs : Drop(h)
    \/ \E h \in Objs : AsRaw(h)
    \/ \E h \in Objs : IntoRaw(h)
    \/ \E h \in Objs : FromRaw(h)
    \/ \E h \in Objs, got \in BOOLEAN : TryIntoBytes(h, got)
    \/ \E h \in Objs, st \in Status : SetMeta(h, st)
    \/ \E h \in Objs, n \in FewSizes, u \in FewResults : Read(h, n, u, FALSE)
    \/ \E h \in Objs, n \in FewSizes, u \in FewResults : Write(h, n, u, FALSE)
    \/ \E h \in Objs, p \in FewSeeks, u \in FewResults : Seek(h, p, u, FALSE)
    \/ \E h \in Objs, w \in Whences, u \in FewResults : EngineSeek(h, 0, w, u, FALSE)

Spec == Init /\ [][Next]_vars

\* ------------------------------------------------------------------ callback protocol
\* One object, every argument and every user result
NextCb ==
    \/ \E c \in StreamCtors, s \in Streams, st \in Status : StreamCtor(1, c, s, st)
    \/ \E n \in Sizes : \E u \in UserResults("read", n) : Read(1, n, u, TRUE)
    \/ \E n \in Sizes : \E u \in UserResults("write", n) : Write(1, n, u, TRUE)
    \/ \E p \in SeekFroms, u \in UserResults("seek", 0) : Seek(1, p, u, TRUE)
    \/ \E d \in Offsets, w \in Whences, u \in UserResults("seek", 0) :
         EngineSeek(1, d, w, u, TRUE)

SpecCb == Init /\ [][NextCb]_vars

\* ------------------------------------------------------------------ memory-backed object
\* A from_bytes that passes copy = 0, as from_buffer does
from_bytes_nocopy(w, bytes, result) ==
    IF result # GPG_ERR_NO_ERROR
      THEN [w |-> w, res |-> Err(Error_new(result)), m |-> NoMem]
      ELSE [w |-> from_raw([w EXCEPT !.obj.eng = "live", !.obj.kind = "mem"]),
            res |-> Ok("Data"),
            m |-> gpgme_data_new_from_mem(bytes, 0)]

\* Data::from_bytes: gpgme_data_new_from_mem(&mut data, buf, len, 1)
from_bytes(w, bytes, result) ==
    IF result # GPG_ERR_NO_ERROR
      THEN [w |-> w, res |-> Err(Error_new(result)), m |-> NoMem]
      ELSE [w |-> from_raw([w EXCEPT !.obj.eng = "live", !.obj.kind = "mem"]),
            res |-> Ok("Data"),
            m |-> gpgme_data_new_from_mem(bytes, 1)]

SeqsUpTo(n) == UNION {[1 .. k -> Byte] : k \in 0 .. n}

\* Seek requests around a buffer of at most MaxLen bytes
MemSeeks ==
    {SeekFrom("Start", k) : k \in (0 .. (MaxLen + 1)) \cap USize}
      \cup {SeekFrom("End", d) : d \in ((0 - MaxLen) .. 1) \cap ISize}
      \cup {SeekFrom("Current", d) : d \in ((0 - MaxLen) .. MaxLen) \cap ISize}

\* What a dangling borrowed buffer may hold
Junk == IF mem.alias /\ caller.st # "valid" THEN [1 .. Len(caller.buf) -> Byte]
                                            ELSE {<<>>}

\* The position the counts returned to the caller add up to
GhostPos == IF ghost.mode = "writing" THEN Len(ghost.written)
                                      ELSE ghost.from + Len(ghost.acc)

\* What the caller knew before a call
Before == [mode |-> ghost.mode, origin |-> ghost.origin, pos |-> GhostPos,
           n |-> Len(ghost.written)]

\* The caller has left the write-then-read scenario
Other == [NoGhost EXCEPT !.mode = "other"]

MemNew(result) ==
    /\ FreeSlot(1)
    /\ LET out == Data_new(World([obj[1] EXCEPT !.ctor = "new"], NoStream), result)
       IN  /\ Put(1, out.w)
           /\ mem' = gpgme_data_new
           /\ ghost' = IF out.res.tag = "Ok"
                         THEN [NoGhost EXCEPT !.mode = "writing", !.origin = "new"]
                         ELSE ghost
           /\ last' = [op |-> "new", res |-> out.res]
    /\ UNCHANGED <<errno, caller>>

MemFromBytes(bytes, result) ==
    /\ FreeSlot(1)
    /\ LET out == from_bytes(World([obj[1] EXCEPT !.ctor = "from_bytes"], NoStream),
                             bytes, result)
       IN  /\ Put(1, out.w)
           /\ mem' = out.m
           /\ ghost' = IF out.res.tag = "Ok"
                         THEN [NoGhost EXCEPT !.mode = "reading", !.origin = "from_bytes",
                                              !.written = bytes, !.how = "ctor"]
                         ELSE ghost
           /\ last' = [op |-> "from_bytes", res |-> out.res]
    /\ caller' = [buf |-> bytes, st |-> "valid"]
    /\ UNCHANGED errno

\* The caller changes a byte of the buffer it passed to from_bytes
CallerMutate(i, b) ==
    /\ caller.st = "valid"
    /\ i \in 1 .. Len(caller.buf)
    /\ caller.buf[i] # b
    /\ caller' = [caller EXCEPT !.buf[i] = b]
    /\ UNCHANGED <<obj, streams, errno, last, mem, ghost>>

\* The caller frees that buffer
CallerFree ==
    /\ caller.st = "valid"
    /\ caller' = [caller EXCEPT !.st = "freed"]
    /\ UNCHANGED <<obj, streams, errno, last, mem, ghost>>

MemWrite(chunk) ==
    /\ obj[1].data = "owned" /\ obj[1].kind = "mem"
    /\ mem.off + Len(chunk) <= MaxLen
    /\ \E junk \in Junk :
         LET f == Data_write(obj[1], mem, chunk, Ok(0), MemSource(mem, caller, junk), errno)
         IN  /\ mem' = f.r.m
             /\ errno' = ErrnoAfter(errno, f.r)
             /\ last' = [op |-> "write", arg |-> SeekFrom("none", Len(chunk)),
                         res |-> f.res, pre |-> Before]
             /\ ghost' = IF ghost.mode = "writing" /\ f.res = Ok(Len(chunk))
                           THEN [ghost EXCEPT !.written = @ \o chunk,
                                              !.chunks = Min(@ + 1, 2)]
                           ELSE Other
    /\ UNCHANGED <<obj, streams, caller>>

MemSeek(pos) ==
    /\ obj[1].data = "owned" /\ obj[1].kind = "mem"
    /\ \E junk \in Junk :
         LET f == Data_seek(obj[1], mem, pos, Ok(0), MemSource(mem, caller, junk), errno)
         IN  /\ mem' = f.r.m
             /\ errno' = ErrnoAfter(errno, f.r)
             /\ last' = [op |-> "seek", arg |-> pos, res |-> f.res, pre |-> Before]
             /\ ghost' = IF ghost.mode \in {"writing", "reading", "eof"} /\ f.res.tag = "Ok"
                           THEN [ghost EXCEPT !.mode = "reading", !.from = f.res.val,
                                              !.acc = <<>>, !.how = pos.tag]
                           ELSE ghost
    /\ UNCHANGED <<obj, streams, caller>>

MemRead(size) ==
    /\ obj[1].data = "owned" /\ obj[1].kind = "mem"
    /\ \E junk \in Junk :
         LET f == Data_read(obj[1], mem, size, Ok(0), MemSource(mem, caller, junk), errno)
         IN  /\ mem' = f.r.m
             /\ errno' = ErrnoAfter(errno, f.r)
             /\ last' = [op |-> "read", arg |-> SeekFrom("none", size),
                         res |-> f.res, pre |-> Before]
             /\ ghost' =
                  IF ghost.mode \in {"reading", "eof"} /\ f.res.tag = "Ok"
                    THEN [ghost EXCEPT !.mode = IF size > 0 /\ f.res.val = 0
                                                  THEN "eof" ELSE @,
                                       !.acc = @ \o f.r.bytes]
                    ELSE IF ghost.mode = "none" THEN ghost
                    ELSE Other
    /\ UNCHANGED <<obj, streams, caller>>

NextMem ==
    \/ \E st \in Status : MemNew(st)
    \/ \E b \in SeqsUpTo(MaxLen), st \in Status : MemFromBytes(b, st)
    \/ \E i \in 1 .. MaxLen, b \in Byte : CallerMutate(i, b)
    \/ CallerFree
    \/ \E c \in SeqsUpTo(MaxChunk) : MemWrite(c)
    \/ \E p \in MemSeeks : MemSeek(p)
    \/ \E n \in 0 .. MaxChunk : MemRead(n)

SpecMem == Init /\ [][NextMem]_vars

\* ------------------------------------------------------------------ properties
IoOps == {"read", "write", "seek", "engine_seek"}

\* C1: over any sequence of as_raw, into_raw, try_into_bytes, read / write /
\* seek, metadata setters and scope exit, the wrapper issues a native release
\* of its handle at most once: none while a Data value or an extracted raw
\* handle holds it, and exactly one once the Data value is gone by drop or by
\* try_into_bytes (so exactly one when into_raw was never called); the engine
\* has released the handle exactly when that one release was issued.
C1_ReleaseAtMostOnce ==
    \A h \in Objs :
      /\ obj[h].releases <= 1
      /\ obj[h].data \in {"none", "owned", "raw"} => obj[h].releases = 0
      /\ obj[h].data = "gone" => obj[h].releases = 1
      /\ (obj[h].data = "gone" /\ ~obj[h].extracted) => obj[h].releases = 1
      /\ (obj[h].eng = "released") <=> (obj[h].releases = 1)

\* An object was consumed by try_into_bytes, which returned None, after
\* another object was extracted with into_raw, wrapped again and dropped.
C1_Witness ==
    /\ last.op = "try_into_bytes" /\ last.res = "None"
    /\ \E h, g \in Objs :
         /\ obj[h].data = "gone" /\ ~obj[h].extracted /\ obj[h].releases = 1
         /\ obj[g].data = "gone" /\ obj[g].extracted /\ obj[g].releases = 1

\* C2: for every successfully constructed callback-backed object the release
\* callback runs at most once, the Callback Context is reclaimed and the user
\* stream dropped by it and by nothing else, and it has run exactly once when
\* the engine has released the handle, which it has once the Data value is
\* gone; failures of later operations or constructions change none of this.
C2_ReleaseCallbackOnce ==
    /\ \A h \in Objs :
         obj[h].kind = "cbs" =>
           /\ obj[h].cbReleases <= 1
           /\ obj[h].ctxFrees = obj[h].cbReleases
           /\ (obj[h].eng = "released") <=> (obj[h].cbReleases = 1)
           /\ obj[h].data = "gone" => obj[h].eng = "released"
           /\ obj[h].eng = "live" =>
                /\ obj[h].ctx = "boxed"
                /\ streams[obj[h].inner] = [streams[obj[h].inner] EXCEPT
                                              !.where = "boxed", !.drops = 0]
           /\ obj[h].eng = "released" =>
                /\ obj[h].ctx = "freed"
                /\ streams[obj[h].inner].where = "dropped"
                /\ streams[obj[h].inner].drops = 1
    /\ \A s \in Streams : streams[s].drops <= 1

\* After a construction that failed, a callback-backed object was made,
\* extracted, wrapped again and consumed by try_into_bytes: its release
\* callback has run once.
C2_Witness ==
    /\ last.op = "try_into_bytes"
    /\ \E h, g \in Objs :
         /\ g < h
         /\ obj[h].kind = "cbs" /\ obj[h].cbReleases = 1 /\ obj[h].extracted
         /\ obj[h].data = "gone" /\ streams[obj[h].inner].drops = 1
         /\ obj[g].ctor \in StreamCtors /\ obj[g].eng = "unalloc"

\* C3: when registration of the callback table fails, from_callbacks yields
\* no Data object, the Callback Context is reclaimed exactly once and not by
\* the release callback, and the WrappedError returned holds the very stream
\* passed in, unchanged, and the translated status code.
C3_FailedRegistration ==
    /\ (last.op \in StreamCtors /\ last.status # GPG_ERR_NO_ERROR) =>
         /\ last.res.tag = "Err"
         /\ into_inner(last.res.val) = last.s
         /\ error(last.res.val).code = last.status
         /\ streams[last.s] = last.pre
         /\ obj[last.h].data = "none"
         /\ obj[last.h].eng = "unalloc"
    /\ \A h \in Objs :
         (obj[h].ctor \in StreamCtors /\ obj[h].eng = "unalloc") =>
           /\ obj[h].data = "none"
           /\ obj[h].ctx = "freed"
           /\ obj[h].ctxFrees = 1
           /\ obj[h].cbReleases = 0

\* The second construction failed, with a stream a failed first construction
\* had handed back.
C3_Witness ==
    /\ last.op \in StreamCtors /\ last.status # GPG_ERR_NO_ERROR /\ last.h = 2
    /\ obj[1].eng = "unalloc" /\ obj[1].inner = last.s

\* C4: a bridged callback that returns a negative value has set the
\* last-error register during that invocation.
C4_NegativeReturnSetsErrno ==
    (last.op \in IoOps /\ last.invoked /\ last.cb.ret < 0) => last.cb.en.set

\* C5: seek_callback with an unrecognized origin code sets "invalid
\* argument", returns -1 and does not call the user object, whose state is
\* unchanged; with a recognized origin code and a successful user seek it
\* returns the position the user object reported.
C5_SeekCallback ==
    (last.op \in {"seek", "engine_seek"} /\ last.invoked) =>
      IF last.whence \notin {SEEK_SET, SEEK_END, SEEK_CUR}
        THEN /\ last.cb.ret = -1
             /\ last.cb.en = SetErrno(22)
             /\ errno = 22
             /\ ~last.cb.called
             /\ streams[last.s] = last.pre
        ELSE last.ures.tag = "Ok" => last.cb.ret = last.ures.val

\* The capability set each user-stream constructor stands for
Caps(ctor) ==
    CASE ctor = "from_reader" -> {"read"}
      [] ctor = "from_seekable_reader" -> {"read", "seek"}
      [] ctor = "from_writer" -> {"write"}
      [] ctor = "from_seekable_writer" -> {"write", "seek"}
      [] ctor = "from_stream" -> {"read", "write"}
      [] ctor = "from_seekable_stream" -> {"read", "write", "seek"}
      [] OTHER -> {}

\* C6: the table registered for an object has read populated iff its
\* constructor is for a Readable, write iff Writable, seek iff Seekable, and
\* release always; the user object's read, write or seek is never called
\* through the bridge for a capability outside that set.
C6_SlotsMatchCapabilities ==
    /\ \A h \in Objs :
         obj[h].kind = "cbs" =>
           obj[h].cbs = [read |-> "read" \in Caps(obj[h].ctor),
                         write |-> "write" \in Caps(obj[h].ctor),
                         seek |-> "seek" \in Caps(obj[h].ctor),
                         release |-> TRUE]
    /\ (last.op \in IoOps /\ last.cb.called) =>
         (IF last.op = "engine_seek" THEN "seek" ELSE last.op) \in Caps(obj[last.h].ctor)

\* A read was attempted on an object made by from_writer and the user object
\* was not called.
C6_Witness ==
    /\ last.op = "read" /\ obj[1].ctor = "from_writer"
    /\ ~last.cb.called /\ last.res.tag = "Err"

\* C10: on an object made by from_reader, a read during which the reader
\* fails with an I/O error returns an error, never a byte count; the error
\* is the translation of the reader's error, and the last-error register
\* holds a non-zero code afterwards.
C10_FailingReaderSurfaces ==
    (last.op = "read" /\ obj[last.h].ctor = "from_reader" /\ last.ures.tag = "Err") =>
      /\ last.cb.ret < 0
      /\ last.res = Err(Error_from_io(last.ures.val))
      /\ errno # 0
      /\ errno = to_errno(Error_from_io(last.ures.val))

\* A read on a from_reader object whose reader failed with NotFound returned
\* an error.
C10_Witness ==
    /\ last.op = "read" /\ obj[1].ctor = "from_reader"
    /\ last.ures = Err("NotFound")
    /\ last.res.tag = "Err"

\* C7: chunks written in order through write into an object made by
\* Data::new() are each accepted whole, and after seeking to the start and
\* reading until read returns 0 the bytes read are the concatenation of the
\* chunks.
C7_WriteReadRoundTrip ==
    /\ (last.op = "write" /\ last.pre.mode = "writing") => last.res = Ok(last.arg.off)
    /\ (ghost.origin = "new" /\ ghost.mode = "eof" /\ ghost.how = "Start"
          /\ ghost.from = 0) => ghost.acc = ghost.written

\* Two or more chunks, MaxLen bytes in all, were written and read back from
\* the start to end-of-stream.
C7_Witness ==
    /\ ghost.origin = "new" /\ ghost.mode = "eof" /\ ghost.how = "Start"
    /\ ghost.from = 0 /\ ghost.chunks >= 2 /\ Len(ghost.written) = MaxLen
    /\ ghost.acc = ghost.written

\* C8: an object made by from_bytes(B), read until read returns 0, yields B,
\* also when the caller's buffer was changed or freed meanwhile; every read
\* succeeds, and every read after the end returns Ok(0).
C8_FromBytesReadsBack ==
    /\ (ghost.origin = "from_bytes" /\ ghost.mode = "eof" /\ ghost.how = "ctor")
         => ghost.acc = ghost.written
    /\ (last.op = "read" /\ last.pre.origin = "from_bytes"
          /\ last.pre.mode \in {"reading", "eof"}) => last.res.tag = "Ok"
    /\ (last.op = "read" /\ last.pre.origin = "from_bytes" /\ last.pre.mode = "eof")
         => last.res = Ok(0)

\* B was read back whole after the caller had changed and then freed its
\* buffer, and one more read was made at the end.
C8_Witness ==
    /\ ghost.origin = "from_bytes" /\ ghost.mode = "eof" /\ ghost.how = "ctor"
    /\ Len(ghost.written) = MaxLen /\ ghost.acc = ghost.written
    /\ caller.st = "freed" /\ caller.buf # ghost.written
    /\ last.op = "read" /\ last.pre.mode = "eof" /\ last.arg.off > 0

\* C9: after N bytes were written, seek(Start(k)) with 0 <= k <= N returns k,
\* seek(End(0)) returns N, seek(Current(d)) from position p returns p + d
\* when 0 <= p + d <= N; after a seek that returned q, reading to
\* end-of-stream yields the last N - q bytes written.
C9_SeekPositions ==
    /\ (last.op = "seek" /\ last.pre.origin = "new"
          /\ last.pre.mode \in {"writing", "reading", "eof"}) =>
         /\ (last.arg.tag = "Start" /\ last.arg.off <= last.pre.n)
              => last.res = Ok(last.arg.off)
         /\ (last.arg.tag = "End" /\ last.arg.off = 0)
              => last.res = Ok(last.pre.n)
         /\ (last.arg.tag = "Current" /\ last.pre.pos + last.arg.off >= 0
               /\ last.pre.pos + last.arg.off <= last.pre.n)
              => last.res = Ok(last.pre.pos + last.arg.off)
    /\ (ghost.origin = "new" /\ ghost.mode = "eof") =>
         /\ ghost.from <= Len(ghost.written)
         /\ ghost.acc = SubSeq(ghost.written, ghost.from + 1, Len(ghost.written))

\* After a relative seek to a position inside the written bytes, the rest was
\* read to end-of-stream.
C9_Witness ==
    /\ ghost.origin = "new" /\ ghost.mode = "eof" /\ ghost.how = "Current"
    /\ ghost.from > 0 /\ ghost.from < Len(ghost.written)
    /\ Len(ghost.acc) = Len(ghost.written) - ghost.from
=============================================================================
